---- MODULE Spec2Model ----
(***************************************************************************)
(* The movie catalog storage of samypt/movies: the IStorage operations     *)
(* (istorage.py) over the two backends StorageJson (storage_json.py) and   *)
(* StorageCsv (storage_csv.py).                                            *)
(*                                                                         *)
(* Text (titles, CSV cells, JSON number literals) is a sequence of         *)
(* one-character strings, so that formatting and parsing are computed.     *)
(* A float is held as its number of tenths (8.0 is 80).                    *)
(***************************************************************************)
EXTENDS Integers, Sequences, FiniteSets, TLC

VARIABLES jsonFile, csvFile, user, last, before

vars == <<jsonFile, csvFile, user, last, before>>

---------------------------------------------------------------------------
(* Bounds of the model *)

\* data rows of a CSV file that was not written by the program
MaxRows == 2
\* entries an add may grow a catalog to
MaxMovies == 3
\* entries of a catalog handed directly to _save_data
MaxSave == 2

---------------------------------------------------------------------------
(* Text *)

Digits == <<"0", "1", "2", "3", "4", "5", "6", "7", "8", "9">>

DigitSet == {Digits[i] : i \in 1..10}

DigitVal(c) ==
    CASE c = "0" -> 0 [] c = "1" -> 1 [] c = "2" -> 2 [] c = "3" -> 3
      [] c = "4" -> 4 [] c = "5" -> 5 [] c = "6" -> 6 [] c = "7" -> 7
      [] c = "8" -> 8 [] c = "9" -> 9

RECURSIVE IntToStr(_)
\* str(n) of a non-negative int
IntToStr(n) ==
    IF n < 10 THEN <<Digits[n + 1]>>
    ELSE Append(IntToStr(n \div 10), Digits[(n % 10) + 1])

FloatToStrWhole(t) == IntToStr(t \div 10)

\* repr(x) of a non-negative float with one fractional digit, x = t / 10
FloatToStr(t) == IntToStr(t \div 10) \o <<".", Digits[(t % 10) + 1]>>

\* s[from..to] is one digit or more
AllDigits(s, from, to) == from <= to /\ \A i \in from..to : s[i] \in DigitSet

RECURSIVE DigitsVal(_, _, _)
\* the number s[from..to] writes
DigitsVal(s, from, to) ==
    IF to < from THEN 0
    ELSE 10 * DigitsVal(s, from, to - 1) + DigitVal(s[to])

\* int(s) succeeds: over the model's alphabet (digits, letters, ".", "/"),
\* exactly the non-empty digit strings
IntOk(s) == AllDigits(s, 1, Len(s))

IntVal(s) == DigitsVal(s, 1, Len(s))

\* the place of the first "." of s, 0 when it has none
DotAt(s) ==
    LET S == {i \in 1..Len(s) : s[i] = "."}
    IN  IF S = {} THEN 0 ELSE CHOOSE i \in S : \A j \in S : i <= j

HasDot(s) == DotAt(s) # 0

\* float(s) succeeds: digits, optionally followed by "." and at most one
\* digit (the texts of the model carry at most one fractional digit)
FloatOk(s) ==
    LET d == DotAt(s)
    IN  IF d = 0 THEN AllDigits(s, 1, Len(s))
        ELSE /\ AllDigits(s, 1, d - 1)
             /\ Len(s) - d <= 1
             /\ \A i \in (d + 1)..Len(s) : s[i] \in DigitSet

\* float(s), in tenths
FloatVal(s) ==
    LET d == DotAt(s)
    IN  IF d = 0 THEN 10 * DigitsVal(s, 1, Len(s))
        ELSE 10 * DigitsVal(s, 1, d - 1) + DigitsVal(s, d + 1, Len(s))

LowerChar(c) ==
    CASE c = "T" -> "t"
      [] c = "R" -> "r"
      [] c = "Y" -> "y"
      [] c = "A" -> "a"
      [] c = "B" -> "b"
      [] c = "C" -> "c"
      [] OTHER -> c

\* str.lower()
Lower(s) == [i \in 1..Len(s) |-> LowerChar(s[i])]

\* sub in s
Contains(sub, s) ==
    \E i \in 1..(Len(s) - Len(sub) + 1) : SubSeq(s, i, i + Len(sub) - 1) = sub

Reverse(s) == [i \in 1..Len(s) |-> s[Len(s) + 1 - i]]

---------------------------------------------------------------------------
(* Python values: every value has the same three fields.  "missing" stands *)
(* for a key that the dict does not have.                                  *)

PyNone == [ty |-> "none", n |-> 0, s |-> <<>>]

Missing == [ty |-> "missing", n |-> 0, s |-> <<>>]

PyInt(i) == [ty |-> "int", n |-> i, s |-> <<>>]

\* t tenths
PyFloat(t) == [ty |-> "float", n |-> t, s |-> <<>>]

PyStr(s) == [ty |-> "str", n |-> 0, s |-> s]

IsNum(v) == v.ty \in {"int", "float"}

\* the value of a number, in tenths
Tenths(v) == IF v.ty = "int" THEN 10 * v.n ELSE v.n

\* a == b
PyEq(a, b) ==
    IF IsNum(a) /\ IsNum(b) THEN Tenths(a) = Tenths(b) ELSE a = b

---------------------------------------------------------------------------
(* A catalog is a Python dict title -> info: a sequence of entries in      *)
(* insertion order, no title twice.                                        *)

Entry(t, i) == [title |-> t, info |-> i]

Info(y, r, p) == [year |-> y, rating |-> r, poster |-> p]

Keys(d) == {d[i].title : i \in DOMAIN d}

\* title in data
Has(d, t) == t \in Keys(d)

\* data[title]
Get(d, t) == d[CHOOSE i \in DOMAIN d : d[i].title = t].info

DictSetAppend(d, t, inf) == Append(d, Entry(t, inf))

\* data[title] = info: an existing key keeps its place, a new one goes last
DictSet(d, t, inf) ==
    IF Has(d, t)
    THEN [i \in DOMAIN d |-> IF d[i].title = t THEN Entry(t, inf) ELSE d[i]]
    ELSE Append(d, Entry(t, inf))

DictPopLast(d, t) == SubSeq(d, 1, Len(d) - 1)

\* data.pop(title)
DictPop(d, t) == SelectSeq(d, LAMBDA e : e.title # t)

NoDuplicates(d) == \A i, j \in DOMAIN d : d[i].title = d[j].title => i = j

---------------------------------------------------------------------------
(* What a try body ends with: the exception it raised ("none": it ran to   *)
(* its end) and the catalog it built.                                      *)

Ran(d) == [exc |-> "none", data |-> d]

Raised(e) == [exc |-> e, data |-> <<>>]

\* the exceptions of the model that are subclasses of Exception (all are)
ExceptionClasses ==
    {"FileNotFoundError", "UnicodeDecodeError", "StopIteration", "ValueError",
     "IndexError", "JSONDecodeError", "KeyError", "TypeError"}

\* what _load_data hands to its caller
Loaded(d) == [raised |-> "none", data |-> d]

Escapes(e) == [raised |-> e, data |-> <<>>]

---------------------------------------------------------------------------
(* StorageCsv.  The file is absent, holds bytes that are not UTF-8, or     *)
(* holds rows of cells (what csv.reader yields and csv.writer is given).   *)

T_title == <<"t", "i", "t", "l", "e">>

T_rating == <<"r", "a", "t", "i", "n", "g">>

T_year == <<"y", "e", "a", "r">>

T_NA == <<"N", "/", "A">>

CsvHeader == <<T_title, T_rating, T_year>>

CsvAbsent == [kind |-> "absent", rows |-> <<>>]

CsvText(rows) == [kind |-> "text", rows |-> rows]

\* details.get(key, 'N/A')
GetOrNA(v) == IF v.ty = "missing" THEN PyStr(T_NA) ELSE v

\* the cell csv.writer writes for a value: None is the empty cell, a number
\* its str()
CsvCell(v) ==
    CASE v.ty = "none" -> <<>>
      [] v.ty = "int" -> IntToStr(v.n)
      [] v.ty = "float" -> FloatToStr(v.n)
      [] OTHER -> v.s

CsvRow(e) ==
    <<e.title, CsvCell(GetOrNA(e.info.rating)), CsvCell(GetOrNA(e.info.year))>>

\* _save_data: the fixed header, then one row per entry
CsvSave(data) == CsvText(<<CsvHeader>> \o [i \in DOMAIN data |-> CsvRow(data[i])])

\* the branch of the header loop's if/elif chain a cell takes
ColumnKind(value) ==
    LET low == Lower(value)
    IN  IF Contains(T_title, low) THEN "title"
        ELSE IF Contains(T_rating, low) THEN "rating"
        ELSE IF Contains(T_year, low) THEN "year"
        ELSE "other"

SetMax(S) == CHOOSE x \in S : \A y \in S : y <= x

SetMin(S) == CHOOSE x \in S : \A y \in S : x <= y

\* the index the header loop leaves for a column: that of the last cell
\* taking its branch, counted from 1; 0 is Python's None
ColumnIndex(kinds, kind) ==
    LET S == {i \in DOMAIN kinds : kinds[i] = kind}
    IN  IF S = {} THEN 0 ELSE SetMax(S)

\* the body of the per-row try, in the order Python evaluates it
RowResult(row, ti, ri, yi) ==
    IF Len(row) < ti THEN "IndexError"
    ELSE IF Len(row) < ri THEN "IndexError"
    ELSE IF row[ri] # <<>> /\ ~FloatOk(row[ri]) THEN "ValueError"
    ELSE IF Len(row) < yi THEN "IndexError"
    ELSE IF row[yi] # <<>> /\ ~IntOk(row[yi]) THEN "ValueError"
    ELSE "ok"

RowInfo(row, ri, yi) ==
    Info(IF row[yi] = <<>> THEN PyNone ELSE PyInt(IntVal(row[yi])),
         IF row[ri] = <<>> THEN PyNone ELSE PyFloat(FloatVal(row[ri])),
         Missing)

\* the exceptions the per-row except clause catches
RowCaught == {"ValueError"}

RECURSIVE CsvReadRows(_, _, _, _, _)
\* for row in reader: a caught exception skips the row, any other leaves
\* the loop
CsvReadRows(rows, ti, ri, yi, acc) ==
    IF rows = <<>> THEN Ran(acc)
    ELSE LET row == Head(rows)
             r == RowResult(row, ti, ri, yi)
         IN  IF r = "ok"
             THEN CsvReadRows(Tail(rows), ti, ri, yi,
                              DictSet(acc, row[ti], RowInfo(row, ri, yi)))
             ELSE IF r \in RowCaught
             THEN CsvReadRows(Tail(rows), ti, ri, yi, acc)
             ELSE Raised(r)

\* the body of _load_data's outer try
CsvRead(file) ==
    IF file.kind = "absent" THEN Raised("FileNotFoundError")
    ELSE IF file.kind = "undecodable" THEN Raised("UnicodeDecodeError")
    ELSE IF file.rows = <<>> THEN Raised("StopIteration")
    ELSE LET header == Head(file.rows)
             kinds == [i \in DOMAIN header |-> ColumnKind(header[i])]
             ti == ColumnIndex(kinds, "title")
             ri == ColumnIndex(kinds, "rating")
             yi == ColumnIndex(kinds, "year")
         IN  IF 0 \in {ti, ri, yi} THEN Raised("ValueError")
             ELSE CsvReadRows(Tail(file.rows), ti, ri, yi, <<>>)

\* the exceptions _load_data's except clauses catch
CsvCaughtOnlyNotFound == {"FileNotFoundError"}

CsvCaught == {"FileNotFoundError"} \cup ExceptionClasses

\* _load_data
CsvLoad(file) ==
    LET r == CsvRead(file)
    IN  IF r.exc = "none" THEN Loaded(r.data)
        ELSE IF r.exc \in CsvCaught THEN Loaded(<<>>)
        ELSE Escapes(r.exc)

---------------------------------------------------------------------------
(* StorageJson.  The file is absent, holds bytes that are not UTF-8, is    *)
(* empty, holds text that is not JSON, or holds an object: its members in  *)
(* order, each value an object of tokens.                                  *)

JsonAbsent == [kind |-> "absent", members |-> <<>>]

\* json.dump of one value
JsonTok(v) ==
    CASE v.ty = "none" -> [t |-> "null", text |-> <<>>]
      [] v.ty = "int" -> [t |-> "number", text |-> IntToStr(v.n)]
      [] v.ty = "float" -> [t |-> "number", text |-> FloatToStr(v.n)]
      [] OTHER -> [t |-> "string", text |-> v.s]

\* json.load of one value: a number with a fraction is a float
JsonVal(tok) ==
    CASE tok.t = "null" -> PyNone
      [] tok.t = "number" ->
            IF HasDot(tok.text) THEN PyFloat(FloatVal(tok.text))
            ELSE PyInt(IntVal(tok.text))
      [] OTHER -> PyStr(tok.text)

\* json.dump of an info dict: the keys it has
JsonObj(info) ==
    LET all == <<[key |-> "year", v |-> info.year],
                 [key |-> "rating", v |-> info.rating],
                 [key |-> "poster", v |-> info.poster]>>
        present == SelectSeq(all, LAMBDA f : f.v.ty # "missing")
    IN  [i \in DOMAIN present |->
            [key |-> present[i].key, tok |-> JsonTok(present[i].v)]]

JsonField(obj, k) ==
    LET S == {i \in DOMAIN obj : obj[i].key = k}
    IN  IF S = {} THEN Missing ELSE JsonVal(obj[SetMax(S)].tok)

JsonInfo(obj) ==
    Info(JsonField(obj, "year"), JsonField(obj, "rating"), JsonField(obj, "poster"))

\* _save_data: json.dump(data)
JsonSave(data) ==
    [kind |-> "object",
     members |-> [i \in DOMAIN data |->
                     [key |-> data[i].title, value |-> JsonObj(data[i].info)]]]

RECURSIVE JsonMembers(_, _)
JsonMembers(ms, acc) ==
    IF ms = <<>> THEN acc
    ELSE JsonMembers(Tail(ms), DictSet(acc, Head(ms).key, JsonInfo(Head(ms).value)))

\* the body of _load_data's try
JsonRead(file) ==
    IF file.kind = "absent" THEN Raised("FileNotFoundError")
    ELSE IF file.kind = "undecodable" THEN Raised("UnicodeDecodeError")
    ELSE IF file.kind \in {"empty", "corrupt"} THEN Raised("JSONDecodeError")
    ELSE Ran(JsonMembers(file.members, <<>>))

JsonCaught == {"FileNotFoundError", "JSONDecodeError"} \cup ExceptionClasses

\* _load_data
JsonLoad(file) ==
    LET r == JsonRead(file)
    IN  IF r.exc = "none" THEN Loaded(r.data)
        ELSE IF r.exc \in JsonCaught THEN Loaded(<<>>)
        ELSE Escapes(r.exc)

---------------------------------------------------------------------------
(* IStorage over the backend in use *)

Backends == {"json", "csv"}

\* self._load_data()
LoadData(b, jf, cf) == IF b = "json" THEN JsonLoad(jf) ELSE CsvLoad(cf)

\* the catalog get_data returns in the current state
Catalog == LoadData(user, jsonFile, csvFile).data

\* the catalog get_data returned before the last call
CatalogBefore == LoadData(user, before.json, before.csv).data

\* self._save_data(data); before keeps the files as the call found them
SaveData(data) ==
    /\ jsonFile' = IF user = "json" THEN JsonSave(data) ELSE jsonFile
    /\ csvFile' = IF user = "csv" THEN CsvSave(data) ELSE csvFile
    /\ before' = [json |-> jsonFile, csv |-> csvFile]
    /\ user' = user

NoSaveRewrites == SaveData(Catalog)

\* a call that does not save
NoSave ==
    /\ before' = [json |-> jsonFile, csv |-> csvFile]
    /\ UNCHANGED <<jsonFile, csvFile, user>>

\* what the last call was given and what it did
Idle ==
    [op |-> "none", title |-> <<>>, year |-> PyNone, rating |-> PyNone,
     poster |-> PyNone, input |-> "", minRating |-> PyNone,
     startYear |-> PyNone, endYear |-> PyNone, data |-> <<>>,
     found |-> FALSE, ret |-> <<>>, out |-> <<>>, best |-> <<>>,
     worst |-> <<>>, sum |-> 0, median2 |-> 0, path |-> "",
     raised |-> "none", loads |-> 0, saves |-> 0]

\* a call whose _load_data raised: the exception leaves the call
LoadRaised(call, ld) ==
    /\ last' = [call EXCEPT !.loads = 1, !.raised = ld.raised]
    /\ NoSave

Titles == {<<"A">>, <<"B">>, <<"C">>}

Years == {PyInt(1999), PyInt(2010)}

Ratings == {PyFloat(55), PyFloat(80)}

Posters == {PyStr(<<"u">>)}

\* the minimum ratings a filter is called with
MinRatings == {PyFloat(55), PyFloat(80)}

\* the answers movies_sorted_by_year is called with
SortInputs == {"n", "y", "x"}

\* add_movie(title, year, rating, poster)
AddMovie ==
    \E ld \in {LoadData(user, jsonFile, csvFile)} :
    \E title \in Titles, year \in Years, rating \in Ratings, poster \in Posters :
        LET call == [Idle EXCEPT !.op = "add", !.title = title, !.year = year,
                                 !.rating = rating, !.poster = poster]
            new_movie == Info(year, rating, poster)
        IN  IF ld.raised # "none" THEN LoadRaised(call, ld)
            ELSE /\ Has(ld.data, title) \/ Len(ld.data) < MaxMovies
                 /\ SaveData(DictSet(ld.data, title, new_movie))
                 /\ last' = [call EXCEPT !.loads = 1, !.saves = 1,
                                         !.found = Has(ld.data, title),
                                         !.path = "added"]

\* get_data()
GetData ==
    \E ld \in {LoadData(user, jsonFile, csvFile)} :
        LET call == [Idle EXCEPT !.op = "get"]
        IN  IF ld.raised # "none" THEN LoadRaised(call, ld)
            ELSE /\ NoSave
                 /\ last' = [call EXCEPT !.loads = 1, !.ret = ld.data]

DeleteSavesAlways(found) == TRUE

\* delete_movie saves under "if title in data"
DeleteSaves(found) == found

\* delete_movie(title)
DeleteMovie ==
    \E ld \in {LoadData(user, jsonFile, csvFile)} :
    \E title \in Titles :
    \E found \in {Has(ld.data, title)} :
        LET call == [Idle EXCEPT !.op = "delete", !.title = title]
        IN  IF ld.raised # "none" THEN LoadRaised(call, ld)
            ELSE /\ IF DeleteSaves(found) THEN SaveData(DictPop(ld.data, title))
                    ELSE NoSave
                 /\ last' = [call EXCEPT
                              !.loads = 1, !.found = found,
                              !.saves = IF DeleteSaves(found) THEN 1 ELSE 0,
                              !.path = IF found THEN "deleted" ELSE "not_found"]

SetRatingResetsPoster(inf, rating) == Info(inf.year, rating, PyStr(<<>>))

\* data[title]['rating'] = rating
SetRating(inf, rating) == [inf EXCEPT !.rating = rating]

\* update_movie(title, rating)
UpdateMovie ==
    \E ld \in {LoadData(user, jsonFile, csvFile)} :
    \E title \in Titles, rating \in Ratings :
    \E found \in {Has(ld.data, title)} :
        LET call == [Idle EXCEPT !.op = "update", !.title = title,
                                 !.rating = rating]
        IN  IF ld.raised # "none" THEN LoadRaised(call, ld)
            ELSE IF found
            THEN /\ SaveData(DictSet(ld.data, title,
                                     SetRating(Get(ld.data, title), rating)))
                 /\ last' = [call EXCEPT !.loads = 1, !.saves = 1,
                                         !.found = TRUE, !.path = "updated"]
            ELSE /\ NoSave
                 /\ last' = [call EXCEPT !.loads = 1, !.path = "not_found"]

---------------------------------------------------------------------------
(* sorted(): a stable sort of items [k |-> key in tenths, e |-> entry]     *)

\* the place of a new last item among items already sorted: after every
\* item whose key is not greater
InsertLast(sorted, it) ==
    LET front == SelectSeq(sorted, LAMBDA x : x.k <= it.k)
        back == SelectSeq(sorted, LAMBDA x : x.k > it.k)
    IN  front \o <<it>> \o back

RECURSIVE SortedAsc(_)
\* sorted(items, key=...)
SortedAsc(items) ==
    IF items = <<>> THEN <<>>
    ELSE InsertLast(SortedAsc(SubSeq(items, 1, Len(items) - 1)), items[Len(items)])

\* sorted(items, key=..., reverse=True): the list is reversed, sorted and
\* reversed again, so that equal keys keep their order
SortedDesc(items) == Reverse(SortedAsc(Reverse(items)))

ByYear(data) == [i \in DOMAIN data |-> [k |-> Tenths(data[i].info.year), e |-> data[i]]]

ByRating(data) == [i \in DOMAIN data |-> [k |-> Tenths(data[i].info.rating), e |-> data[i]]]

Entries(items) == [i \in DOMAIN items |-> items[i].e]

TitlesOf(d) == [i \in DOMAIN d |-> d[i].title]

\* what info[key] does to a computation over numbers: a missing key is a
\* KeyError, None in arithmetic or in a comparison a TypeError
Fault(v) ==
    CASE v.ty = "missing" -> "KeyError"
      [] v.ty = "none" -> "TypeError"
      [] OTHER -> "none"

\* the exception of the first entry whose rating cannot be summed
RatingFault(data) ==
    LET bad == {i \in DOMAIN data : Fault(data[i].info.rating) # "none"}
    IN  IF bad = {} THEN "none" ELSE Fault(data[SetMin(bad)].info.rating)

\* sorted(data.items(), key=year): the keys are taken first (KeyError),
\* then compared, which takes two entries (TypeError)
YearSortFault(data) ==
    LET missing == {i \in DOMAIN data : data[i].info.year.ty = "missing"}
        none == {i \in DOMAIN data : data[i].info.year.ty = "none"}
    IN  IF missing # {} THEN "KeyError"
        ELSE IF none # {} /\ Len(data) >= 2 THEN "TypeError"
        ELSE "none"

RECURSIVE SumTenths(_)
SumTenths(items) ==
    IF items = <<>> THEN 0 ELSE Head(items).k + SumTenths(Tail(items))

\* twice the median of the sorted ratings
Median2(sr) ==
    IF Len(sr) % 2 = 0
    THEN sr[Len(sr) \div 2 + 1].k + sr[Len(sr) \div 2].k
    ELSE 2 * sr[Len(sr) \div 2 + 1].k

\* print_best_worst_movie: the titles of movie_list rated as movie is
BestWorst(movie_list, movie) ==
    TitlesOf(Entries(SelectSeq(movie_list, LAMBDA m : m.k = movie.k)))

\* show_stats()
ShowStats ==
    \E ld \in {LoadData(user, jsonFile, csvFile)} :
    \E data \in {ld.data} :
    \E sorted_movies \in {IF RatingFault(data) = "none"
                          THEN SortedAsc(ByRating(data)) ELSE <<>>} :
        LET call == [Idle EXCEPT !.op = "stats"]
        IN  IF ld.raised # "none" THEN LoadRaised(call, ld)
            ELSE /\ NoSave
                 /\ last' =
                     IF Len(data) = 0
                     THEN [call EXCEPT !.loads = 1, !.path = "no_data"]
                     ELSE IF RatingFault(data) # "none"
                     THEN [call EXCEPT !.loads = 1, !.raised = RatingFault(data)]
                     ELSE [call EXCEPT
                            !.loads = 1, !.path = "printed",
                            !.sum = SumTenths(sorted_movies),
                            !.median2 = Median2(sorted_movies),
                            !.best = BestWorst(sorted_movies,
                                               sorted_movies[Len(sorted_movies)]),
                            !.worst = BestWorst(sorted_movies, sorted_movies[1])]

\* movies_sorted_by_year(user_input)
MoviesSortedByYear ==
    \E ld \in {LoadData(user, jsonFile, csvFile)} :
    \E data \in {ld.data} :
    \E user_input \in SortInputs :
        LET call == [Idle EXCEPT !.op = "sort_year", !.input = user_input]
        IN  IF ld.raised # "none" THEN LoadRaised(call, ld)
            ELSE /\ NoSave
                 /\ last' =
                     IF Len(data) = 0
                     THEN [call EXCEPT !.loads = 1, !.path = "no_data"]
                     ELSE IF user_input \notin {"n", "y"}
                     THEN [call EXCEPT !.loads = 1, !.path = "invalid"]
                     ELSE IF YearSortFault(data) # "none"
                     THEN [call EXCEPT !.loads = 1,
                                       !.raised = YearSortFault(data)]
                     ELSE [call EXCEPT
                            !.loads = 1, !.path = "printed",
                            !.out = IF user_input = "n"
                                    THEN Entries(SortedAsc(ByYear(data)))
                                    ELSE Entries(SortedDesc(ByYear(data)))]

\* the test of the comprehension on one entry, as Python evaluates it:
\* the year is read only when the rating passes
FilterTest(e, min_rating, start_year, end_year) ==
    IF Fault(e.info.rating) # "none" THEN Fault(e.info.rating)
    ELSE IF ~(Tenths(e.info.rating) >= Tenths(min_rating)) THEN "drop"
    ELSE IF Fault(e.info.year) # "none" THEN Fault(e.info.year)
    ELSE IF /\ Tenths(start_year) <= Tenths(e.info.year)
            /\ Tenths(e.info.year) <= Tenths(end_year)
    THEN "keep"
    ELSE "drop"

\* filter_movies(min_rating, start_year, end_year)
FilterMovies ==
    \E ld \in {LoadData(user, jsonFile, csvFile)} :
    \E data \in {ld.data} :
    \E min_rating \in MinRatings, start_year \in Years, end_year \in Years :
    \E tests \in {[i \in DOMAIN data |->
                     FilterTest(data[i], min_rating, start_year, end_year)]} :
        LET call == [Idle EXCEPT !.op = "filter", !.minRating = min_rating,
                                 !.startYear = start_year, !.endYear = end_year]
            bad == {i \in DOMAIN data : tests[i] \notin {"keep", "drop"}}
            kept == {i \in DOMAIN data : tests[i] = "keep"}
            filtered_movies == SelectSeq(data, LAMBDA e :
                                   \E i \in kept : data[i] = e)
        IN  IF ld.raised # "none" THEN LoadRaised(call, ld)
            ELSE /\ NoSave
                 /\ last' =
                     IF Len(data) = 0
                     THEN [call EXCEPT !.loads = 1, !.path = "no_data"]
                     ELSE IF bad # {}
                     THEN [call EXCEPT !.loads = 1,
                                       !.raised = tests[SetMin(bad)]]
                     ELSE IF kept # {}
                     THEN [call EXCEPT !.loads = 1, !.path = "printed",
                                       !.out = filtered_movies]
                     ELSE [call EXCEPT !.loads = 1, !.path = "nothing_found"]

\* what printing info["year"] and info["rating"] of an entry raises
PrintFault(e) ==
    IF e.info.year.ty = "missing" \/ e.info.rating.ty = "missing"
    THEN "KeyError" ELSE "none"

\* the exception of the first of the entries that cannot be printed
FirstPrintFault(entries) ==
    LET bad == {i \in DOMAIN entries : PrintFault(entries[i]) # "none"}
    IN  IF bad = {} THEN "none" ELSE PrintFault(entries[SetMin(bad)])

\* list_movies()
ListMovies ==
    \E ld \in {LoadData(user, jsonFile, csvFile)} :
    \E data \in {ld.data} :
        LET call == [Idle EXCEPT !.op = "list"]
        IN  IF ld.raised # "none" THEN LoadRaised(call, ld)
            ELSE /\ NoSave
                 /\ last' =
                     IF Len(data) = 0
                     THEN [call EXCEPT !.loads = 1, !.path = "no_movies"]
                     ELSE IF FirstPrintFault(data) # "none"
                     THEN [call EXCEPT !.loads = 1,
                                       !.raised = FirstPrintFault(data)]
                     ELSE [call EXCEPT !.loads = 1, !.path = "printed",
                                       !.out = data]

\* random_movie(): random.choice takes any of the items
RandomMovie ==
    \E ld \in {LoadData(user, jsonFile, csvFile)} :
    \E data \in {ld.data} :
    \E choice \in IF Len(data) = 0 THEN {0} ELSE DOMAIN data :
        LET call == [Idle EXCEPT !.op = "random"]
        IN  IF ld.raised # "none" THEN LoadRaised(call, ld)
            ELSE /\ NoSave
                 /\ last' =
                     IF Len(data) = 0
                     THEN [call EXCEPT !.loads = 1, !.path = "no_movies"]
                     ELSE IF data[choice].info.rating.ty = "missing"
                     THEN [call EXCEPT !.loads = 1, !.raised = "KeyError"]
                     ELSE [call EXCEPT !.loads = 1, !.path = "printed",
                                       !.out = <<data[choice]>>]

\* the texts search_movie is called with
SearchTexts == {<<"a">>, <<"B">>}

\* search_movie(title)
SearchMovie ==
    \E ld \in {LoadData(user, jsonFile, csvFile)} :
    \E data \in {ld.data} :
    \E title \in SearchTexts :
    \E search_part \in {Lower(title)} :
        LET call == [Idle EXCEPT !.op = "search", !.title = title]
            matches == SelectSeq(data, LAMBDA e :
                           Contains(search_part, Lower(e.title)))
        IN  IF ld.raised # "none" THEN LoadRaised(call, ld)
            ELSE /\ NoSave
                 /\ last' =
                     IF Len(data) = 0
                     THEN [call EXCEPT !.loads = 1, !.path = "no_movies"]
                     ELSE IF FirstPrintFault(matches) # "none"
                     THEN [call EXCEPT !.loads = 1,
                                       !.raised = FirstPrintFault(matches)]
                     ELSE [call EXCEPT !.loads = 1, !.path = "printed",
                                       !.out = matches]

\* sorted(data.items(), key=rating, reverse=True): the keys are taken
\* first (KeyError), then compared, which takes two entries (TypeError)
RatingSortFault(data) ==
    LET missing == {i \in DOMAIN data : data[i].info.rating.ty = "missing"}
        none == {i \in DOMAIN data : data[i].info.rating.ty = "none"}
    IN  IF missing # {} THEN "KeyError"
        ELSE IF none # {} /\ Len(data) >= 2 THEN "TypeError"
        ELSE "none"

\* movies_sorted_by_rating()
MoviesSortedByRating ==
    \E ld \in {LoadData(user, jsonFile, csvFile)} :
    \E data \in {ld.data} :
        LET call == [Idle EXCEPT !.op = "sort_rating"]
        IN  IF ld.raised # "none" THEN LoadRaised(call, ld)
            ELSE /\ NoSave
                 /\ last' =
                     IF Len(data) = 0
                     THEN [call EXCEPT !.loads = 1, !.path = "no_data"]
                     ELSE IF RatingSortFault(data) # "none"
                     THEN [call EXCEPT !.loads = 1,
                                       !.raised = RatingSortFault(data)]
                     ELSE [call EXCEPT
                            !.loads = 1, !.path = "printed",
                            !.out = Entries(SortedDesc(ByRating(data)))]

---------------------------------------------------------------------------
(* The inputs and the files the model starts from *)

\* the infos of catalogs handed to _save_data: a whole record, one without
\* rating and poster, one without year and poster
SaveInfos ==
    {Info(PyInt(2010), PyFloat(80), PyStr(<<"u">>)),
     Info(PyInt(2010), Missing, Missing),
     Info(Missing, PyFloat(50), Missing)}

SaveEntries == {Entry(t, i) : t \in Titles, i \in SaveInfos}

SaveCatalogs ==
    {d \in UNION {[1..n -> SaveEntries] : n \in 0..MaxSave} : NoDuplicates(d)}

JsonInitial ==
    {[kind |-> k, members |-> <<>>] :
        k \in {"absent", "undecodable", "empty", "corrupt"}}

\* headers of CSV files that were not written by the program: the columns
\* in another order and case, and headers lacking one of the columns
HeaderPool ==
    {CsvHeader,
     <<<<"Y", "e", "a", "r">>, <<"T", "i", "t", "l", "e">>,
       <<"R", "a", "t", "i", "n", "g">>>>,
     <<T_title, T_year>>,
     <<T_title, T_rating>>,
     <<T_rating, T_year>>}

Row_A == <<<<"A">>, <<"8", ".", "0">>, <<"2", "0", "1", "0">>>>

\* data rows: good ones, a title twice, a rating and a year that are no
\* numbers, empty cells, a row with a cell less, a blank line
RowPool(h) ==
    IF h = CsvHeader
    THEN {Row_A,
          <<<<"A">>, <<"5", ".", "0">>, <<"1", "9", "9", "9">>>>,
          <<<<"B">>, <<"x">>, <<"1", "9", "9", "9">>>>,
          <<<<"B">>, <<"5", ".", "0">>, <<"x">>>>,
          <<<<"B">>, <<>>, <<"1", "9", "9", "9">>>>,
          <<<<"C">>, <<"8">>, <<>>>>,
          <<<<"C">>, <<"5", ".", "0">>>>,
          <<>>}
    ELSE IF Len(h) = 3
    THEN {<<<<"2", "0", "1", "0">>, <<"A">>, <<"8">>>>, Row_A}
    ELSE {Row_A}

CsvInitial ==
    {[kind |-> k, rows |-> <<>>] : k \in {"absent", "undecodable"}}
    \cup {CsvText(<<>>)}
    \cup UNION {{CsvText(<<h>> \o rs) :
                    rs \in UNION {[1..n -> RowPool(h)] : n \in 0..MaxRows}} :
                 h \in HeaderPool}

Init ==
    /\ user \in Backends
    /\ jsonFile \in IF user = "json" THEN JsonInitial ELSE {JsonAbsent}
    /\ csvFile \in IF user = "csv" THEN CsvInitial ELSE {CsvAbsent}
    /\ last = Idle
    /\ before = [json |-> jsonFile, csv |-> csvFile]

Next ==
    \/ AddMovie
    \/ DeleteMovie
    \/ UpdateMovie
    \/ GetData
    \/ ShowStats
    \/ MoviesSortedByYear
    \/ FilterMovies

Spec == Init /\ [][Next]_vars

\* _save_data(data), called with a catalog of the caller's
SaveCall ==
    \E data \in SaveCatalogs :
        /\ SaveData(data)
        /\ last' = [Idle EXCEPT !.op = "save", !.data = data, !.saves = 1]

NextSave ==
    \/ SaveCall
    \/ GetData

\* _save_data and _load_data alone, on catalogs of the caller's
SpecSave == Init /\ [][NextSave]_vars

\* every operation of IStorage
NextOps ==
    \/ ListMovies
    \/ AddMovie
    \/ GetData
    \/ DeleteMovie
    \/ UpdateMovie
    \/ ShowStats
    \/ RandomMovie
    \/ SearchMovie
    \/ MoviesSortedByYear
    \/ MoviesSortedByRating
    \/ FilterMovies

SpecOps == Init /\ [][NextOps]_vars

---------------------------------------------------------------------------
(* main's two storages, each over its own file, given the same calls *)

\* the file of backend b after _save_data(data)
SavedFile(b, data) == IF b = "json" THEN JsonSave(data) ELSE CsvSave(data)

\* the file of backend b after add_movie(title, year, rating, poster),
\* ld what its _load_data returned
FileAfterAdd(b, file, ld, title, new_movie) ==
    IF ld.raised # "none" THEN file
    ELSE SavedFile(b, DictSet(ld.data, title, new_movie))

\* the file of backend b after delete_movie(title)
FileAfterDelete(b, file, ld, title) ==
    IF ld.raised # "none" \/ ~DeleteSaves(Has(ld.data, title)) THEN file
    ELSE SavedFile(b, DictPop(ld.data, title))

\* the file of backend b after update_movie(title, rating)
FileAfterUpdate(b, file, ld, title, rating) ==
    IF ld.raised # "none" \/ ~Has(ld.data, title) THEN file
    ELSE SavedFile(b, DictSet(ld.data, title,
                              SetRating(Get(ld.data, title), rating)))

\* the two files as the call found them
BothCalled(call) ==
    /\ last' = [call EXCEPT !.loads = 1]
    /\ before' = [json |-> jsonFile, csv |-> csvFile]
    /\ user' = user

\* add_movie on both storages
AddBoth ==
    \E jl \in {JsonLoad(jsonFile)}, cl \in {CsvLoad(csvFile)} :
    \E title \in Titles, year \in Years, rating \in Ratings, poster \in Posters :
        /\ Has(jl.data, title) \/ Len(jl.data) < MaxMovies
        /\ jsonFile' = FileAfterAdd("json", jsonFile, jl, title,
                                    Info(year, rating, poster))
        /\ csvFile' = FileAfterAdd("csv", csvFile, cl, title,
                                   Info(year, rating, poster))
        /\ BothCalled([Idle EXCEPT !.op = "add", !.title = title, !.year = year,
                                   !.rating = rating, !.poster = poster])

\* delete_movie on both storages
DeleteBoth ==
    \E jl \in {JsonLoad(jsonFile)}, cl \in {CsvLoad(csvFile)} :
    \E title \in Titles :
        /\ jsonFile' = FileAfterDelete("json", jsonFile, jl, title)
        /\ csvFile' = FileAfterDelete("csv", csvFile, cl, title)
        /\ BothCalled([Idle EXCEPT !.op = "delete", !.title = title])

\* update_movie on both storages
UpdateBoth ==
    \E jl \in {JsonLoad(jsonFile)}, cl \in {CsvLoad(csvFile)} :
    \E title \in Titles, rating \in Ratings :
        /\ jsonFile' = FileAfterUpdate("json", jsonFile, jl, title, rating)
        /\ csvFile' = FileAfterUpdate("csv", csvFile, cl, title, rating)
        /\ BothCalled([Idle EXCEPT !.op = "update", !.title = title,
                                   !.rating = rating])

\* both files are empty: absent, or present without content
InitBoth ==
    /\ user = "json"
    /\ jsonFile \in {JsonAbsent, [kind |-> "empty", members |-> <<>>]}
    /\ csvFile \in {CsvAbsent, CsvText(<<>>)}
    /\ last = Idle
    /\ before = [json |-> jsonFile, csv |-> csvFile]

NextBoth ==
    \/ AddBoth
    \/ DeleteBoth
    \/ UpdateBoth

SpecBoth == InitBoth /\ [][NextBoth]_vars

---------------------------------------------------------------------------
(* Properties *)

SeqToSet(q) == {q[i] : i \in DOMAIN q}

\* the titles the file in use stores, one per row or member
StoredTitles ==
    IF user = "json" THEN [i \in DOMAIN jsonFile.members |-> jsonFile.members[i].key]
    ELSE IF Len(csvFile.rows) = 0 THEN <<>>
    ELSE [i \in 1..(Len(csvFile.rows) - 1) |->
            IF Len(csvFile.rows[i + 1]) = 0 THEN <<>> ELSE csvFile.rows[i + 1][1]]

Distinct(q) == \A i, j \in DOMAIN q : q[i] = q[j] => i = j

\* C1: after add(t, y, r) of a title that was not in the catalog, getAll()
\* has the key t and its record has year y and rating r
C1_AddThenGetAll ==
    (last.op = "add" /\ last.raised = "none" /\ ~last.found) =>
        LET now == Catalog
        IN  /\ ~Has(CatalogBefore, last.title)
            /\ Has(now, last.title)
            /\ PyEq(Get(now, last.title).year, last.year)
            /\ PyEq(Get(now, last.title).rating, last.rating)

C1_Witness ==
    /\ last.op = "add" /\ ~last.found /\ last.raised = "none"
    /\ user = "csv"
    /\ Len(Catalog) = 3

\* C2: add(t, y2, r2) of a title that is in the catalog overwrites its
\* record and leaves the number of entries as it was; after any add the
\* stored titles are distinct
C2_AddOverwrites ==
    (last.op = "add" /\ last.raised = "none") =>
        LET now == Catalog
            was == CatalogBefore
        IN  /\ Distinct(StoredTitles)
            /\ NoDuplicates(now)
            /\ last.found =>
                /\ Has(was, last.title)
                /\ Len(now) = Len(was)
                /\ PyEq(Get(now, last.title).year, last.year)
                /\ PyEq(Get(now, last.title).rating, last.rating)

C2_Witness ==
    /\ last.op = "add" /\ last.found
    /\ Len(Catalog) = 2
    /\ Catalog[1].title = last.title
    /\ Get(CatalogBefore, last.title).rating # last.rating

FilesUnchanged == jsonFile = before.json /\ csvFile = before.csv

\* C3: delete(t) of a title that is not in the catalog leaves the catalog
\* as it was, does not write the file and returns normally
C3_DeleteAbsent ==
    last.op = "delete" =>
        LET was == CatalogBefore
        IN  ~Has(was, last.title) =>
                /\ Catalog = was
                /\ FilesUnchanged
                /\ last.saves = 0
                /\ last.raised = "none"
                /\ last.path = "not_found"

C3_Witness ==
    /\ last.op = "delete" /\ ~Has(CatalogBefore, last.title)
    /\ user = "csv" /\ csvFile.kind = "text"
    /\ Len(csvFile.rows) > 0 /\ Head(csvFile.rows) # CsvHeader
    /\ Len(Catalog) > 0

\* C4: update(t, r) of an absent title changes nothing and does not save;
\* of a present title it sets the rating of t to r, leaves its year and
\* its poster as they were, and leaves every other record as it was
C4_UpdateFrame ==
    (last.op = "update" /\ last.raised = "none") =>
        LET now == Catalog
            was == CatalogBefore
        IN  IF Has(was, last.title)
            THEN /\ TitlesOf(now) = TitlesOf(was)
                 /\ PyEq(Get(now, last.title).rating, last.rating)
                 /\ Get(now, last.title).year = Get(was, last.title).year
                 /\ Get(now, last.title).poster = Get(was, last.title).poster
                 /\ \A t \in Keys(was) \ {last.title} : Get(now, t) = Get(was, t)
            ELSE /\ now = was
                 /\ FilesUnchanged
                 /\ last.saves = 0

C4_Witness ==
    /\ last.op = "update" /\ Has(CatalogBefore, last.title)
    /\ user = "json"
    /\ Len(Catalog) = 3
    /\ Get(Catalog, last.title).poster = PyStr(<<"u">>)
    /\ Get(CatalogBefore, last.title).rating # last.rating

\* dict equality of what a CSV file holds: titles, ratings and years
SameRatingsAndYears(a, b) ==
    /\ Keys(a) = Keys(b)
    /\ \A t \in Keys(a) :
          /\ PyEq(Get(a, t).rating, Get(b, t).rating)
          /\ PyEq(Get(a, t).year, Get(b, t).year)

HasAllFields(d) ==
    \A i \in DOMAIN d :
        d[i].info.rating.ty # "missing" /\ d[i].info.year.ty # "missing"

\* C5: save(C) then load() gives C back: for JSON the very catalog, for CSV
\* the same titles with equal rating and year, also when a record of C
\* lacks its rating or its year
C5_RoundTrip ==
    last.op = "save" =>
        LET now == Catalog
        IN  IF user = "json" THEN now = last.data
            ELSE SameRatingsAndYears(now, last.data)

\* the part of C5 that holds: JSON gives the very catalog back, CSV the
\* ratings and years of a catalog whose records have both
RoundTripOfWholeRecords ==
    last.op = "save" =>
        LET now == Catalog
        IN  IF user = "json" THEN now = last.data
            ELSE HasAllFields(last.data) =>
                    /\ TitlesOf(now) = TitlesOf(last.data)
                    /\ SameRatingsAndYears(now, last.data)

RoundTripWitness ==
    /\ last.op = "save" /\ user = "csv"
    /\ Len(last.data) = 2 /\ HasAllFields(last.data)

\* a saved record without its rating is not in the catalog loaded back
C5_RecordLost ==
    /\ last.op = "save" /\ user = "csv"
    /\ Len(last.data) = 1
    /\ last.data[1].info.rating.ty = "missing"
    /\ last.data[1].info.year.ty = "int"
    /\ Catalog = <<>>

\* a header cell names the column
Names(cell, name) == Contains(name, Lower(cell))

HeaderLacks(header, name) == \A i \in DOMAIN header : ~Names(header[i], name)

\* the file the last call found is one no catalog can be loaded from
LoadFails ==
    IF user = "json"
    THEN before.json.kind \in {"absent", "undecodable", "empty", "corrupt"}
    ELSE \/ before.csv.kind \in {"absent", "undecodable"}
         \/ before.csv.rows = <<>>
         \/ \E name \in {T_title, T_rating, T_year} :
                HeaderLacks(Head(before.csv.rows), name)

RowParses(row, ti, ri, yi) ==
    /\ Len(row) >= ti /\ Len(row) >= ri /\ Len(row) >= yi
    /\ row[ri] = <<>> \/ FloatOk(row[ri])
    /\ row[yi] = <<>> \/ IntOk(row[yi])

RECURSIVE EntriesOfParsingRows(_, _, _, _, _)
EntriesOfParsingRows(rows, ti, ri, yi, acc) ==
    IF rows = <<>> THEN acc
    ELSE EntriesOfParsingRows(
            Tail(rows), ti, ri, yi,
            IF RowParses(Head(rows), ti, ri, yi)
            THEN DictSet(acc, Head(rows)[ti], RowInfo(Head(rows), ri, yi))
            ELSE acc)

\* C7: loading a CSV file with a valid header gives exactly the entries of
\* the data rows that parse, whatever the other rows are
C7_PartialLoad ==
    (/\ last.op = "get" /\ user = "csv"
     /\ csvFile.kind = "text" /\ csvFile.rows # <<>>) =>
        LET header == Head(csvFile.rows)
            kinds == [i \in DOMAIN header |-> ColumnKind(header[i])]
            ti == ColumnIndex(kinds, "title")
            ri == ColumnIndex(kinds, "rating")
            yi == ColumnIndex(kinds, "year")
        IN  0 \notin {ti, ri, yi} =>
                last.ret = EntriesOfParsingRows(Tail(csvFile.rows), ti, ri, yi, <<>>)

\* the part of C7 that holds: rows of three cells whose rating or year is
\* no number are skipped one by one
RowsOfThreeCells == \A i \in 2..Len(csvFile.rows) : Len(csvFile.rows[i]) >= 3

SkipsRowsThatAreNoNumbers ==
    (/\ last.op = "get" /\ user = "csv"
     /\ csvFile.kind = "text" /\ csvFile.rows # <<>>
     /\ RowsOfThreeCells) =>
        LET header == Head(csvFile.rows)
            kinds == [i \in DOMAIN header |-> ColumnKind(header[i])]
            ti == ColumnIndex(kinds, "title")
            ri == ColumnIndex(kinds, "rating")
            yi == ColumnIndex(kinds, "year")
        IN  0 \notin {ti, ri, yi} =>
                last.ret = EntriesOfParsingRows(Tail(csvFile.rows), ti, ri, yi, <<>>)

SkipsRowsWitness ==
    /\ last.op = "get" /\ user = "csv"
    /\ csvFile.kind = "text" /\ Len(csvFile.rows) = 3
    /\ Head(csvFile.rows) = CsvHeader
    /\ RowsOfThreeCells
    /\ Len(last.ret) = 1

\* a good row followed by a row with a cell less: nothing is loaded
C7_LoadAborted ==
    /\ last.op = "get" /\ user = "csv"
    /\ csvFile.kind = "text" /\ Len(csvFile.rows) = 3
    /\ csvFile.rows[1] = CsvHeader
    /\ csvFile.rows[2] = Row_A
    /\ Len(csvFile.rows[3]) = 2
    /\ last.ret = <<>>

\* every rating and every year of the catalog is a number
AllNumbers(c) ==
    \A i \in DOMAIN c : IsNum(c[i].info.rating) /\ IsNum(c[i].info.year)

\* C8: stats() on a catalog that is not empty reports as best exactly the
\* titles whose rating is the greatest, as worst exactly those whose rating
\* is the least
C8_BestWorst ==
    last.op = "stats" =>
        LET c == Catalog
            rated == {i \in DOMAIN c : IsNum(c[i].info.rating)}
            r(i) == Tenths(c[i].info.rating)
        IN  Len(c) > 0 =>
              /\ last.raised = "none"
              /\ SeqToSet(last.best) =
                    {c[i].title : i \in {j \in rated : \A k \in rated : r(k) <= r(j)}}
              /\ SeqToSet(last.worst) =
                    {c[i].title : i \in {j \in rated : \A k \in rated : r(j) <= r(k)}}

\* the part of C8 that holds: on catalogs whose ratings are all numbers
BestWorstOfNumbers ==
    last.op = "stats" =>
        LET c == Catalog
            r(i) == Tenths(c[i].info.rating)
        IN  (Len(c) > 0 /\ AllNumbers(c)) =>
              /\ last.raised = "none"
              /\ SeqToSet(last.best) =
                    {c[i].title : i \in {j \in DOMAIN c : \A k \in DOMAIN c : r(k) <= r(j)}}
              /\ SeqToSet(last.worst) =
                    {c[i].title : i \in {j \in DOMAIN c : \A k \in DOMAIN c : r(j) <= r(k)}}

BestWorstWitness ==
    /\ last.op = "stats" /\ last.raised = "none"
    /\ Len(last.best) = 2 /\ Len(last.worst) = 1

\* stats on a catalog holding a rating that is None
C8_StatsRaises ==
    /\ last.op = "stats" /\ last.raised = "TypeError"
    /\ Len(Catalog) > 0
    /\ last.best = <<>> /\ last.worst = <<>>

\* an entry is within the bounds of the last filter call
Within(e) ==
    /\ IsNum(e.info.rating) /\ IsNum(e.info.year)
    /\ Tenths(e.info.rating) >= Tenths(last.minRating)
    /\ Tenths(last.startYear) <= Tenths(e.info.year)
    /\ Tenths(e.info.year) <= Tenths(last.endYear)

\* C9: filter(minRating, startYear, endYear) lists exactly the entries with
\* rating >= minRating and startYear <= year <= endYear, in catalog order,
\* and reports that nothing was found exactly when the catalog is not
\* empty and no entry is within the bounds
C9_Filter ==
    last.op = "filter" =>
        LET c == Catalog
            within == SelectSeq(c, Within)
        IN  /\ last.raised = "none"
            /\ last.out = within
            /\ last.path = "nothing_found" <=> (Len(c) > 0 /\ within = <<>>)

\* the part of C9 that holds: on catalogs whose ratings and years are all
\* numbers
FilterOfNumbers ==
    last.op = "filter" =>
        LET c == Catalog
            within == SelectSeq(c, Within)
        IN  AllNumbers(c) =>
              /\ last.raised = "none"
              /\ last.out = within
              /\ last.path = "nothing_found" <=> (Len(c) > 0 /\ within = <<>>)

FilterWitness ==
    /\ last.op = "filter" /\ last.path = "printed"
    /\ Len(last.out) = 1 /\ Len(Catalog) = 3
    /\ last.out[1].info.rating = last.minRating
    /\ last.out[1].info.year = last.startYear
    /\ last.out[1].info.year = last.endYear

\* filter on a catalog holding a rating or a year that is None
C9_FilterRaises ==
    /\ last.op = "filter" /\ last.raised = "TypeError"
    /\ Len(Catalog) > 0
    /\ last.out = <<>> /\ last.path # "nothing_found"

\* the place of a title in a catalog
Place(c, t) == CHOOSE i \in DOMAIN c : c[i].title = t

SortedStably(out, c, descending) ==
    /\ Len(out) = Len(c)
    /\ SeqToSet(out) = SeqToSet(c)
    /\ \A i, j \in DOMAIN out :
          i < j =>
            LET a == Tenths(out[i].info.year)
                b == Tenths(out[j].info.year)
            IN  /\ IF descending THEN a >= b ELSE a <= b
                /\ a = b => Place(c, out[i].title) < Place(c, out[j].title)

\* C10: sortByYear lists, in either direction, a permutation of the catalog
\* in the order of the years, entries of the same year in catalog order
C10_StableSort ==
    (last.op = "sort_year" /\ last.input \in {"n", "y"}) =>
        /\ last.raised = "none"
        /\ SortedStably(last.out, Catalog, last.input = "y")

\* the part of C10 that holds: on catalogs whose years are all numbers
StableSortOfNumbers ==
    (last.op = "sort_year" /\ last.input \in {"n", "y"}) =>
        LET c == Catalog
        IN  AllNumbers(c) =>
              /\ last.raised = "none"
              /\ SortedStably(last.out, c, last.input = "y")

StableSortWitness ==
    /\ last.op = "sort_year" /\ last.input = "y" /\ last.path = "printed"
    /\ Len(last.out) = 3
    /\ last.out[1].info.year = last.out[2].info.year
    /\ last.out[2].info.year # last.out[3].info.year
    /\ Catalog[2] = last.out[3]

\* sortByYear on a catalog holding a year that is None
C10_SortRaises ==
    /\ last.op = "sort_year" /\ last.input \in {"n", "y"}
    /\ last.raised = "TypeError"
    /\ Len(Catalog) = 2
    /\ last.out = <<>>

\* what get_data returns on each of the two storages
JsonCatalog == LoadData("json", jsonFile, csvFile).data

CsvCatalog == LoadData("csv", jsonFile, csvFile).data

\* C11: starting from empty files, after every add, delete and update
\* given to both storages, getAll() of the JSON storage and getAll() of the
\* CSV storage are the same catalog: the same titles and for each title
\* the same year, rating and poster
C11_FormatIndependence ==
    LET j == JsonCatalog
        c == CsvCatalog
    IN  /\ Keys(j) = Keys(c)
        /\ \A t \in Keys(j) :
              /\ PyEq(Get(j, t).year, Get(c, t).year)
              /\ PyEq(Get(j, t).rating, Get(c, t).rating)
              /\ PyEq(Get(j, t).poster, Get(c, t).poster)

\* the part of C11 that holds: the same titles in the same order, with the
\* same ratings and years
SameTitlesRatingsAndYears ==
    LET j == JsonCatalog
        c == CsvCatalog
    IN  /\ TitlesOf(j) = TitlesOf(c)
        /\ SameRatingsAndYears(j, c)

SameTitlesWitness ==
    /\ last.op = "delete"
    /\ Len(JsonCatalog) = 2 /\ Len(CsvCatalog) = 2
    /\ Len(LoadData("csv", before.json, before.csv).data) = 3

\* after one add to both, the JSON storage has the poster, the CSV storage
\* has none
C11_PosterLost ==
    /\ last.op = "add"
    /\ Len(JsonCatalog) = 1 /\ Len(CsvCatalog) = 1
    /\ JsonCatalog[1].info.poster = last.poster
    /\ CsvCatalog[1].info.poster = Missing

\* C12: delete(t) of a title that is in the catalog removes t and nothing
\* else: getAll() no longer has t, has one entry less, and has every other
\* title with the record it had
C12_DeletePresent ==
    last.op = "delete" =>
        LET now == Catalog
            was == CatalogBefore
        IN  Has(was, last.title) =>
                /\ last.raised = "none"
                /\ last.path = "deleted"
                /\ ~Has(now, last.title)
                /\ Len(now) = Len(was) - 1
                /\ Keys(now) = Keys(was) \ {last.title}
                /\ \A t \in Keys(now) : Get(now, t) = Get(was, t)

C12_Witness ==
    /\ last.op = "delete" /\ user = "csv"
    /\ Len(CatalogBefore) = 3
    /\ CatalogBefore[2].title = last.title
    /\ Len(Catalog) = 2

ReadOps ==
    {"list", "get", "stats", "random", "search", "sort_year", "sort_rating",
     "filter"}

\* the last call was an add, a delete of a title that was there or an
\* update of a title that was there
Mutated ==
    \/ last.op = "add" /\ last.raised = "none"
    \/ last.op \in {"delete", "update"} /\ Has(CatalogBefore, last.title)

\* the file in use
FileInUse == IF user = "json" THEN jsonFile ELSE csvFile

\* C13: a read operation (list, getAll, stats, randomPick, search,
\* sortByYear, sortByRating, filter) loads once, never saves and leaves the
\* file as it was; an add, a delete of a present title and an update of a
\* present title load once and save once, and the file then holds the
\* whole catalog
C13_OnlyMutationsWrite ==
    /\ last.op \in ReadOps =>
          /\ last.loads = 1
          /\ last.saves = 0
          /\ FilesUnchanged
    /\ Mutated =>
          /\ last.loads = 1
          /\ last.saves = 1
          /\ FileInUse = SavedFile(user, Catalog)
    /\ (last.op \in {"delete", "update"} /\ ~Mutated) =>
          /\ last.saves = 0
          /\ FilesUnchanged

\* a read of a CSV file that a save would write differently
C13_Witness ==
    /\ last.op = "sort_rating" /\ last.path = "printed"
    /\ user = "csv"
    /\ Len(last.out) = 2
    /\ csvFile # SavedFile(user, Catalog)

====
